---------------------------- MODULE Spec2Model ----------------------------
(***************************************************************************)
(* Model of core/context.py: the Character class (cached "current          *)
(* character"), the scene search _load and the creation dialog _create_ui. *)
(*                                                                         *)
(* Strings are sequences of one-character strings, so that split,          *)
(* capitalize and the two regular expressions are computed character by    *)
(* character.  The literal suffixes the code appends ('_markers',          *)
(* '_DO_NOT_TOUCH') are kept as single pieces of such a sequence; no input *)
(* character is '_', so two sequences are equal exactly when the Python    *)
(* strings are.                                                            *)
(***************************************************************************)
EXTENDS Integers, Sequences, FiniteSets, TLC

(***************************************************************************)
(* Bounds.                                                                 *)
(***************************************************************************)
MaxNameLen == 2        \* longest text typed in the name field
MaxInitialsLen == 1    \* longest text typed in the initials field
MaxInitNodes == 2      \* transforms in the scene when the tool starts
MaxCreated == 1        \* marker groups the dialog creates in one run

(***************************************************************************)
(* Characters and strings.                                                 *)
(***************************************************************************)
Alphabet == {"a", "B", "1", " ", "\t"}     \* typed into the name field
InitialsAlphabet == {"a", "1", " "}         \* typed into the initials field

IsLetter(c) == c \in {"a", "b", "A", "B"}
IsDigit(c) == c \in {"1", "2", "3"}
IsAlnum(c) == IsLetter(c) \/ IsDigit(c)
IsSpace(c) == c \in {" ", "\t"}

ToUpper(c) == CASE c = "a" -> "A" [] c = "b" -> "B" [] OTHER -> c
ToLower(c) == CASE c = "A" -> "a" [] c = "B" -> "b" [] OTHER -> c

RECURSIVE StringsUpTo(_, _)
StringsUpTo(chars, n) ==
    IF n = 0 THEN {<<>>}
    ELSE LET shorter == StringsUpTo(chars, n - 1)
         IN  shorter \cup {Append(s, c) : s \in shorter, c \in chars}

RECURSIVE Join(_)
Join(words) ==
    IF words = <<>> THEN <<>> ELSE Head(words) \o Join(Tail(words))

\* str.split(sep) with a one-character separator
RECURSIVE Split(_, _)
Split(string, sep) ==
    LET at == {i \in 1..Len(string) : string[i] = sep}
    IN  IF at = {} THEN <<string>>
        ELSE LET i == CHOOSE k \in at : \A j \in at : k <= j
             IN  <<SubSeq(string, 1, i - 1)>>
                     \o Split(SubSeq(string, i + 1, Len(string)), sep)

\* str.capitalize(): first character upper-cased, the rest lower-cased
Capitalize(word) ==
    [i \in 1..Len(word) |-> IF i = 1 THEN ToUpper(word[i]) ELSE ToLower(word[i])]

_camelCase(string) ==
    LET words == Split(string, " ")
    IN  Join([i \in 1..Len(words) |-> Capitalize(words[i])])

\* one iteration of (?:[A-Za-z][a-zA-Z0-9]*(?:\s|$)) starting at position i,
\* followed by further iterations or the final $
RECURSIVE NameIter(_, _)
NameIter(s, i) ==
    /\ i <= Len(s)
    /\ IsLetter(s[i])
    /\ \E j \in (i + 1)..(Len(s) + 1) :
          /\ \A k \in (i + 1)..(j - 1) : IsAlnum(s[k])
          /\ \/ j = Len(s) + 1
             \/ /\ j <= Len(s)
                /\ IsSpace(s[j])
                /\ (j + 1 = Len(s) + 1 \/ NameIter(s, j + 1))

\* re.match(r'^(?:[A-Za-z][a-zA-Z0-9]*(?:\s|$))+$', name)
NameMatch(name) == NameIter(name, 1)

\* re.match(r'^[a-zA-Z][a-zA-Z0-9]*$', initials)
InitialsMatch(initials) ==
    /\ Len(initials) >= 1
    /\ IsLetter(initials[1])
    /\ \A k \in 2..Len(initials) : IsAlnum(initials[k])

NameInputs == StringsUpTo(Alphabet, MaxNameLen)
InitialsInputs == StringsUpTo(InitialsAlphabet, MaxInitialsLen)


(***************************************************************************)
(* The scene: a sequence of DAG nodes in creation order.  parent = 0 is    *)
(* the world; a node's parent was created before it.  attrs is a record    *)
(* whose domain is the set of attributes the node carries.                 *)
(***************************************************************************)
_NAME_ATTR == "rigGenName"
_INITIALS_ATTR == "rigGenInitials"

NoAttrs == [a \in {} |-> 0]
Markers == <<"_markers">>
Digits == <<"1", "2", "3", "4", "5", "6", "7", "8", "9">>

\* cmds.objExists / MayaDagObject.exists(): some node has this name
ObjExists(sc, name) == \E i \in 1..Len(sc) : sc[i].name = name

NodeOf(sc, name) == CHOOSE i \in 1..Len(sc) : sc[i].name = name

\* MayaDagObject(object).attr(a).exists()
AttrExists(sc, name, a) ==
    ObjExists(sc, name) /\ a \in DOMAIN sc[NodeOf(sc, name)].attrs

\* MayaDagObject(object).attr(a).get_str()
AttrGet(sc, name, a) == sc[NodeOf(sc, name)].attrs[a]

\* the name Maya gives a new node: characters that are illegal in a node
\* name become '_', and a name already in use gets a number appended
LegalName(requested) ==
    [i \in 1..Len(requested) |->
        IF IsAlnum(requested[i]) \/ requested[i] \in {"_", "_markers"}
        THEN requested[i] ELSE "_"]

NewNodeName(sc, requested) ==
    LET legal == LegalName(requested)
    IN  IF ~ObjExists(sc, legal) THEN legal
        ELSE LET free == {k \in 1..Len(Digits) : ~ObjExists(sc, Append(legal, Digits[k]))}
             IN  Append(legal, Digits[CHOOSE k \in free : \A j \in free : k <= j])

\* cmds.group(n=..., em=True) followed by the three addAttr calls
CreateMarkerGroup(sc, requested, name, initials) ==
    Append(sc, [name   |-> NewNodeName(sc, requested),
                parent |-> 0,
                attrs  |-> [rigGenName     |-> name,
                            rigGenInitials |-> initials,
                            layoutSize     |-> 50]])

\* cmds.ls(sl=True, tl=True, l=True)[0].split('|') for the node selected
\* last: the long name starts with '|', so the first piece is empty
RECURSIVE LongName(_, _)
LongName(sc, i) ==
    IF i = 0 THEN <<>> ELSE Append(LongName(sc, sc[i].parent), sc[i].name)

ActivePath(sc, sel) == <<<<>>>> \o LongName(sc, sel)

\* om.MItDag(kBreadthFirst, kTransform): level by level from the world,
\* the children of a node in creation order
Children(sc, p) == {i \in 1..Len(sc) : sc[i].parent = p}

RECURSIVE InOrder(_)
InOrder(set) ==
    IF set = {} THEN <<>>
    ELSE LET m == CHOOSE k \in set : \A j \in set : k <= j
         IN  <<m>> \o InOrder(set \ {m})

\* mutant: the walk goes depth first
RECURSIVE DepthFirstFrom(_, _)
DepthFirstFrom(sc, stack) ==
    IF stack = <<>> THEN <<>>
    ELSE <<Head(stack)>>
            \o DepthFirstFrom(sc, InOrder(Children(sc, Head(stack))) \o Tail(stack))

DepthFirst(sc) == DepthFirstFrom(sc, InOrder(Children(sc, 0)))

RECURSIVE BreadthFirstFrom(_, _)
BreadthFirstFrom(sc, queue) ==
    IF queue = <<>> THEN <<>>
    ELSE <<Head(queue)>>
            \o BreadthFirstFrom(sc, Tail(queue) \o InOrder(Children(sc, Head(queue))))

BreadthFirst(sc) == BreadthFirstFrom(sc, InOrder(Children(sc, 0)))

(***************************************************************************)
(* class Character.  A MayaDagObject is modelled by the name it wraps.     *)
(***************************************************************************)
None == <<"None">>
Unset == <<"AttributeError">>   \* controls_grp is not declared in the class body

Compose(part, initials) == <<"CENTER", part, "GROUP">> \o initials

NoCharacter ==
    [raw_name |-> None, name |-> None, initials |-> None,
     marker_grp |-> None, output_grp |-> None, internals_grp |-> None,
     controls_grp |-> Unset, geometry_grp |-> None, pose_grp |-> None,
     systems_grp |-> None, bind_grp |-> None,
     layout_control |-> None, cog_control |-> None]

\* mutant: the marker group is named from the raw name
setCharacterRawMarker(cls, initials, name) ==
    [cls EXCEPT
        !.raw_name = name,
        !.name = _camelCase(name),
        !.initials = initials,
        !.marker_grp = name \o Markers,
        !.output_grp = _camelCase(name),
        !.internals_grp = initials \o <<"_DO_NOT_TOUCH">>,
        !.controls_grp = Compose("Controls", initials),
        !.geometry_grp = Compose("Geometry", initials),
        !.pose_grp = Compose("Pose", initials),
        !.systems_grp = Compose("Systems", initials),
        !.bind_grp = Compose("Bind", initials)]

setCharacter(cls, initials, name) ==
    [cls EXCEPT
        !.raw_name = name,
        !.name = _camelCase(name),
        !.initials = initials,
        !.marker_grp = _camelCase(name) \o Markers,
        !.output_grp = _camelCase(name),
        !.internals_grp = initials \o <<"_DO_NOT_TOUCH">>,
        !.controls_grp = Compose("Controls", initials),
        !.geometry_grp = Compose("Geometry", initials),
        !.pose_grp = Compose("Pose", initials),
        !.systems_grp = Compose("Systems", initials),
        !.bind_grp = Compose("Bind", initials)]

(***************************************************************************)
(* _load                                                                   *)
(***************************************************************************)
\* the test in _try_set
_try_set(sc, object) ==
    AttrExists(sc, object, _NAME_ATTR) /\ AttrExists(sc, object, _INITIALS_ATTR)

\* what _try_set does to Character when the test passes
TrySetCharacter(sc, cls, object) ==
    setCharacter(cls, AttrGet(sc, object, _INITIALS_ATTR), AttrGet(sc, object, _NAME_ATTR))

First(set) == CHOOSE k \in set : \A j \in set : k <= j

\* the pieces of the active path that the first loop accepts
ActiveHits(sc, sel) ==
    IF sel = 0 THEN {}
    ELSE LET path == ActivePath(sc, sel)
         IN  {k \in 1..Len(path) : path[k] # <<>> /\ _try_set(sc, path[k])}

\* the positions of the breadth-first walk that the second loop accepts
ScanHits(sc) ==
    LET order == BreadthFirst(sc)
    IN  {k \in 1..Len(order) : _try_set(sc, sc[order[k]].name)}

\* mutant: the scene is scanned before the selection is looked at
_loadScanFirst(sc, sel, cls) ==
    LET active == ActiveHits(sc, sel)
        scan == ScanHits(sc)
    IN  IF scan # {}
        THEN [ret |-> TRUE, via |-> "scan",
              cls |-> TrySetCharacter(sc, cls, sc[BreadthFirst(sc)[First(scan)]].name)]
        ELSE IF active # {}
        THEN [ret |-> TRUE, via |-> "selection",
              cls |-> TrySetCharacter(sc, cls, ActivePath(sc, sel)[First(active)])]
        ELSE [ret |-> FALSE, via |-> "none", cls |-> cls]

\* [ret, cls, via]: the return value, Character afterwards, and the loop
\* that returned
_load(sc, sel, cls) ==
    LET active == ActiveHits(sc, sel)
        scan == ScanHits(sc)
    IN  IF active # {}
        THEN [ret |-> TRUE, via |-> "selection",
              cls |-> TrySetCharacter(sc, cls, ActivePath(sc, sel)[First(active)])]
        ELSE IF scan # {}
        THEN [ret |-> TRUE, via |-> "scan",
              cls |-> TrySetCharacter(sc, cls, sc[BreadthFirst(sc)[First(scan)]].name)]
        ELSE [ret |-> FALSE, via |-> "none", cls |-> cls]

(***************************************************************************)
(* The scenes the tool may be started in: up to MaxInitNodes transforms    *)
(* with distinct names, some of them carrying the character attributes.    *)
(***************************************************************************)
InitNodeNames ==
    {<<"b">>, _camelCase(<<"a">>) \o Markers, _camelCase(<<"B">>) \o Markers}

InitAttrs ==
    {NoAttrs,
     [rigGenName |-> <<"a">>],
     [rigGenInitials |-> <<"a">>],
     [rigGenName |-> <<"a">>, rigGenInitials |-> <<"a">>, layoutSize |-> 50],
     [rigGenName |-> <<"B">>, rigGenInitials |-> <<"a">>, layoutSize |-> 50]}

RECURSIVE Scenes(_)
Scenes(n) ==
    IF n = 0 THEN {<<>>}
    ELSE LET smaller == Scenes(n - 1)
         IN  smaller \cup
             {Append(sc, [name |-> nm, parent |-> p, attrs |-> at]) :
                 sc \in {x \in smaller : Len(x) = n - 1},
                 nm \in InitNodeNames, p \in 0..(n - 1), at \in InitAttrs}

UniqueNames(sc) == \A i, j \in 1..Len(sc) : sc[i].name = sc[j].name => i = j

InitScenes == {sc \in Scenes(MaxInitNodes) : UniqueNames(sc)}

(***************************************************************************)
(* State.                                                                  *)
(***************************************************************************)
VARIABLES
    scene,       \* the Maya scene
    Character,   \* the class attributes of Character
    pc,          \* "idle", or "dialog" while cmds.layoutDialog is open
    last,        \* the handler that ran last, the texts it read and what came of it
    scene0,      \* the scene when the current initialize() call began
    created      \* how many marker groups the dialog has created

vars == <<scene, Character, pc, last, scene0, created>>

NoOp ==
    [op |-> "start", sel |-> 0, ret |-> FALSE, via |-> "none", opened |-> FALSE,
     dialog |-> "none", outcome |-> "none", err |-> "none",
     name |-> None, initials |-> None]

Init ==
    /\ scene \in InitScenes
    /\ Character = NoCharacter
    /\ pc = "idle"
    /\ last = NoOp
    /\ scene0 = scene
    /\ created = 0

(***************************************************************************)
(* Character.setCharacter called directly                                  *)
(***************************************************************************)
SetCharacter(initials, name) ==
    /\ pc = "idle"
    /\ Character' = setCharacter(Character, initials, name)
    /\ last' = [NoOp EXCEPT !.op = "setCharacter"]
    /\ UNCHANGED <<scene, pc, scene0, created>>

(***************************************************************************)
(* _load called directly, with node sel selected last (0: nothing).  r is   *)
(* the one result of the call.                                             *)
(***************************************************************************)
Load(sel) ==
    /\ pc = "idle"
    /\ \E r \in {_load(scene, sel, Character)} :
           /\ Character' = r.cls
           /\ last' = [NoOp EXCEPT !.op = "_load", !.sel = sel, !.ret = r.ret, !.via = r.via]
    /\ UNCHANGED <<scene, pc, scene0, created>>

(***************************************************************************)
(* Character.initialize up to its return or to the modal dialog            *)
(***************************************************************************)
Initialize(sel) ==
    /\ pc = "idle"
    /\ \E r \in {_load(scene, sel, Character)} :
       LET found == r.cls.marker_grp # None /\ ObjExists(scene, r.cls.marker_grp)
       IN  /\ Character' = r.cls
           /\ pc' = IF found THEN "idle" ELSE "dialog"
           /\ last' = [NoOp EXCEPT !.op = "initialize", !.sel = sel, !.ret = r.ret,
                                   !.via = r.via, !.opened = ~found,
                                   !.outcome = IF found THEN "returned" ELSE "running"]
    /\ scene0' = scene
    /\ UNCHANGED <<scene, created>>

(***************************************************************************)
(* Mutants of submit: one that creates the group but leaves the dialog     *)
(* open, one that checks the initials before the name.                     *)
(***************************************************************************)
SubmitKeepsDialog(name, initials) ==
    /\ pc = "dialog"
    /\ IF ~(name # <<>> /\ NameMatch(name))
       THEN /\ last' = [NoOp EXCEPT !.op = "submit", !.err = "name", !.opened = TRUE,
                                    !.outcome = "running",
                                    !.name = name, !.initials = initials]
            /\ UNCHANGED <<scene, Character, pc, scene0, created>>
       ELSE IF ~(initials # <<>> /\ InitialsMatch(initials))
       THEN /\ last' = [NoOp EXCEPT !.op = "submit", !.err = "initials", !.opened = TRUE,
                                    !.outcome = "running",
                                    !.name = name, !.initials = initials]
            /\ UNCHANGED <<scene, Character, pc, scene0, created>>
       ELSE /\ created < MaxCreated
            /\ created' = created + 1
            /\ Character' = setCharacter(Character, initials, name)
            /\ scene' = CreateMarkerGroup(scene, Character'.name \o Markers, name, initials)
            /\ last' = [NoOp EXCEPT !.op = "submit", !.opened = TRUE,
                                    !.outcome = "running",
                                    !.name = name, !.initials = initials]
            /\ UNCHANGED <<pc, scene0>>

SubmitInitialsFirst(name, initials) ==
    /\ pc = "dialog"
    /\ IF ~(initials # <<>> /\ InitialsMatch(initials))
       THEN /\ last' = [NoOp EXCEPT !.op = "submit", !.err = "initials", !.opened = TRUE,
                                    !.outcome = "running",
                                    !.name = name, !.initials = initials]
            /\ UNCHANGED <<scene, Character, pc, scene0, created>>
       ELSE IF ~(name # <<>> /\ NameMatch(name))
       THEN /\ last' = [NoOp EXCEPT !.op = "submit", !.err = "name", !.opened = TRUE,
                                    !.outcome = "running",
                                    !.name = name, !.initials = initials]
            /\ UNCHANGED <<scene, Character, pc, scene0, created>>
       ELSE /\ created < MaxCreated
            /\ created' = created + 1
            /\ Character' = setCharacter(Character, initials, name)
            /\ scene' = CreateMarkerGroup(scene, Character'.name \o Markers, name, initials)
            /\ pc' = "idle"
            /\ last' = [NoOp EXCEPT !.op = "submit", !.opened = TRUE,
                                    !.name = name, !.initials = initials,
                                    !.dialog = "confirm", !.outcome = "returned"]
            /\ UNCHANGED scene0

(***************************************************************************)
(* The Create button: submit, reading the two text fields                  *)
(***************************************************************************)
Submit(name, initials) ==
    /\ pc = "dialog"
    /\ IF ~(name # <<>> /\ NameMatch(name))
       THEN /\ last' = [NoOp EXCEPT !.op = "submit", !.err = "name", !.opened = TRUE,
                                    !.outcome = "running",
                                    !.name = name, !.initials = initials]
            /\ UNCHANGED <<scene, Character, pc, scene0, created>>
       ELSE IF ~(initials # <<>> /\ InitialsMatch(initials))
       THEN /\ last' = [NoOp EXCEPT !.op = "submit", !.err = "initials", !.opened = TRUE,
                                    !.outcome = "running",
                                    !.name = name, !.initials = initials]
            /\ UNCHANGED <<scene, Character, pc, scene0, created>>
       ELSE /\ created < MaxCreated
            /\ created' = created + 1
            /\ Character' = setCharacter(Character, initials, name)
            /\ scene' = CreateMarkerGroup(scene, Character'.name \o Markers, name, initials)
            /\ pc' = "idle"
            /\ last' = [NoOp EXCEPT !.op = "submit", !.opened = TRUE,
                                    !.name = name, !.initials = initials,
                                    !.dialog = "confirm", !.outcome = "returned"]
            /\ UNCHANGED scene0

(***************************************************************************)
(* The Cancel button: the dialog ends with 'dismiss', initialize raises    *)
(***************************************************************************)
Cancel ==
    /\ pc = "dialog"
    /\ pc' = "idle"
    /\ last' = [NoOp EXCEPT !.op = "cancel", !.opened = TRUE, !.err = last.err,
                            !.dialog = "dismiss", !.outcome = "CancelledError"]
    /\ UNCHANGED <<scene, Character, scene0, created>>

(***************************************************************************)
(* Spec: the tool started in any scene of InitScenes, the texts typed into *)
(* the dialog drawn from TypedNames and TypedInitials (one text of each    *)
(* kind the handler tells apart), setCharacter called with CachedNames.    *)
(***************************************************************************)
TypedNames == {<<>>, <<"a">>, <<"a", "\t">>}
TypedInitials == {<<>>, <<"a">>}
CachedNames == {<<"a">>, <<"B">>}           \* names passed to setCharacter directly
CachedInitials == {<<"a">>}

Next ==
    \/ \E initials \in CachedInitials, name \in CachedNames : SetCharacter(initials, name)
    \/ \E sel \in 0..Len(scene) : Load(sel)
    \/ \E sel \in 0..Len(scene) : Initialize(sel)
    \/ \E name \in TypedNames, initials \in TypedInitials : Submit(name, initials)
    \/ Cancel

Spec == Init /\ [][Next]_vars

(***************************************************************************)
(* SpecForm: one initialize() call in an empty scene, with every text of   *)
(* up to MaxNameLen and MaxInitialsLen characters typed into the dialog.   *)
(***************************************************************************)
InitForm ==
    /\ scene = <<>>
    /\ Character = NoCharacter
    /\ pc = "idle"
    /\ last = NoOp
    /\ scene0 = scene
    /\ created = 0

FirstInitialize == last.op = "start" /\ Initialize(0)

NextForm ==
    \/ FirstInitialize
    \/ \E name \in NameInputs, initials \in InitialsInputs : Submit(name, initials)
    \/ Cancel

SpecForm == InitForm /\ [][NextForm]_vars

(***************************************************************************)
(* SpecCache: the tool started in an empty scene, setCharacter called with *)
(* every name of up to MaxNameLen characters.                              *)
(***************************************************************************)
NextCache ==
    \/ \E initials \in TypedInitials, name \in NameInputs : SetCharacter(initials, name)
    \/ \E sel \in 0..Len(scene) : Load(sel)
    \/ \E sel \in 0..Len(scene) : Initialize(sel)
    \/ \E name \in TypedNames, initials \in TypedInitials : Submit(name, initials)
    \/ Cancel

SpecCache == InitForm /\ [][NextCache]_vars

(***************************************************************************)
(* Vocabulary of the properties.                                           *)
(***************************************************************************)
Returned == last.outcome = "returned"
Raised == last.outcome = "CancelledError"
LoadRan == last.op \in {"_load", "initialize"}

\* node i carries both character attributes
Carrier(sc, i) == {"rigGenName", "rigGenInitials"} \subseteq DOMAIN sc[i].attrs

\* node i is a marker group: <Name>_markers for its own rigGenName
MarkerGroup(sc, i) ==
    /\ Carrier(sc, i)
    /\ sc[i].name = _camelCase(sc[i].attrs.rigGenName) \o <<"_markers">>

RECURSIVE Depth(_, _)
Depth(sc, i) == IF i = 0 THEN 0 ELSE 1 + Depth(sc, sc[i].parent)

\* node i and its ancestors
RECURSIVE PathNodes(_, _)
PathNodes(sc, i) == IF i = 0 THEN {} ELSE {i} \cup PathNodes(sc, sc[i].parent)

SelectedCarriers(sc, sel) == {i \in PathNodes(sc, sel) : Carrier(sc, i)}
AllCarriers(sc) == {i \in 1..Len(sc) : Carrier(sc, i)}

\* the member of a set of path nodes nearest the root
Topmost(sc, set) == CHOOSE i \in set : \A j \in set : Depth(sc, i) <= Depth(sc, j)

\* node i is met before node j in a breadth-first walk
RECURSIVE BfsBefore(_, _, _)
BfsBefore(sc, i, j) ==
    \/ Depth(sc, i) < Depth(sc, j)
    \/ /\ Depth(sc, i) = Depth(sc, j)
       /\ i # j
       /\ IF sc[i].parent = sc[j].parent THEN i < j
          ELSE BfsBefore(sc, sc[i].parent, sc[j].parent)

BfsFirst(sc, set) == CHOOSE i \in set : \A j \in set \ {i} : BfsBefore(sc, i, j)

\* the cached character was read from node i
CachedFrom(sc, i) ==
    /\ Character.raw_name = sc[i].attrs.rigGenName
    /\ Character.initials = sc[i].attrs.rigGenInitials

(***************************************************************************)
(* C1: whenever initialize() returns normally, Character.marker_grp is set *)
(* and the object it names exists in the scene.                            *)
(***************************************************************************)
C1_MarkerGroupExistsOnReturn ==
    Returned =>
        /\ Character.marker_grp # None
        /\ \E i \in 1..Len(scene) : scene[i].name = Character.marker_grp

(***************************************************************************)
(* C2: initialize() raises CancelledError exactly when the dialog was      *)
(* opened (no cached marker group exists after _load) and ended with       *)
(* 'dismiss'; then this call has created nothing in the scene.             *)
(***************************************************************************)
C2_CancelledExactlyOnDismiss ==
    /\ Raised <=> (last.opened /\ last.dialog = "dismiss")
    /\ last.op = "initialize" =>
          (last.opened <=>
              ~(/\ Character.marker_grp # None
                /\ \E i \in 1..Len(scene) : scene[i].name = Character.marker_grp))
    /\ last.dialog # "none" => last.opened
    /\ Raised => scene = scene0

C2_CancelAfterInvalidCreate ==
    Raised /\ last.err # "none" /\ scene = scene0

(***************************************************************************)
(* C3: whenever the scene contains a marker group, initialize() returns    *)
(* without opening the dialog and without modifying the scene.             *)
(***************************************************************************)
C3_NoPromptWhenMarkerGroupExists ==
    (/\ last.op = "initialize"
     /\ \E i \in 1..Len(scene0) : MarkerGroup(scene0, i))
        => (Returned /\ ~last.opened /\ scene = scene0)

C5_ScanState ==
    (LoadRan /\ SelectedCarriers(scene, last.sel) = {}) =>
        IF AllCarriers(scene) # {}
        THEN /\ last.ret
             /\ last.via = "scan"
             /\ CachedFrom(scene, BfsFirst(scene, AllCarriers(scene)))
        ELSE ~last.ret

C5_ScanFrame ==
    (last'.op = "_load" /\ ~last'.ret) => Character' = Character

WordsOk(s) ==
    /\ \E i \in 1..Len(s) : ~IsSpace(s[i])
    /\ \A i \in 1..Len(s) :
          ~IsSpace(s[i]) =>
              IF i = 1 \/ IsSpace(s[IF i = 1 THEN 1 ELSE i - 1])
              THEN IsLetter(s[i]) ELSE IsAlnum(s[i])

InitialsOk(s) ==
    /\ s # <<>>
    /\ \A i \in 1..Len(s) : IF i = 1 THEN IsLetter(s[i]) ELSE IsAlnum(s[i])

Rejected(name, initials) == ~WordsOk(name) \/ ~InitialsOk(initials)

C6_RejectedState ==
    (last.op = "submit" /\ Rejected(last.name, last.initials)) =>
        /\ last.err # "none"
        /\ ~WordsOk(last.name) => last.err = "name"
        /\ pc = "dialog"
        /\ last.dialog = "none"
        /\ scene = scene0

C6_RejectedFrame ==
    (last'.op = "submit" /\ Rejected(last'.name, last'.initials)) =>
        /\ Character' = Character
        /\ scene' = scene
        /\ pc' = pc

JustCreated ==
    /\ last.op = "submit"
    /\ last.dialog = "confirm"
    /\ AllCarriers(scene) = {Len(scene)}

C7_CreatedGroup ==
    JustCreated =>
        /\ Len(scene) = Len(scene0) + 1
        /\ scene[Len(scene)].attrs =
              [rigGenName |-> last.name, rigGenInitials |-> last.initials,
               layoutSize |-> 50]
        /\ Returned

C7_NextInitialize ==
    (JustCreated /\ last'.op = "initialize") =>
        /\ ~last'.opened
        /\ last'.outcome = "returned"
        /\ Character'.raw_name = last.name
        /\ Character'.initials = last.initials
        /\ Character'.name = Character.name

C7_CreateRoundTrip == []C7_CreatedGroup /\ [][C7_NextInitialize]_vars

(***************************************************************************)
(* C8: the cached character is consistent: either nothing was ever set, or *)
(* name is the concatenation of the capitalised space-separated words of   *)
(* raw_name and every group is named from the current name or initials.    *)
(***************************************************************************)
\* the characters of s other than ' ', each upper-cased when it starts s or
\* follows a ' ' and lower-cased otherwise
RECURSIVE CapitalisedWords(_, _)
CapitalisedWords(s, i) ==
    IF i > Len(s) THEN <<>>
    ELSE IF s[i] = " " THEN CapitalisedWords(s, i + 1)
    ELSE <<IF i = 1 \/ s[IF i = 1 THEN 1 ELSE i - 1] = " "
           THEN ToUpper(s[i]) ELSE ToLower(s[i])>> \o CapitalisedWords(s, i + 1)

C8_CacheConsistent ==
    \/ Character = NoCharacter
    \/ /\ Character.name = CapitalisedWords(Character.raw_name, 1)
       /\ Character.marker_grp = Character.name \o <<"_markers">>
       /\ Character.output_grp = Character.name
       /\ Character.internals_grp = Character.initials \o <<"_DO_NOT_TOUCH">>
       /\ Character.controls_grp = Compose("Controls", Character.initials)
       /\ Character.geometry_grp = Compose("Geometry", Character.initials)
       /\ Character.pose_grp = Compose("Pose", Character.initials)
       /\ Character.systems_grp = Compose("Systems", Character.initials)
       /\ Character.bind_grp = Compose("Bind", Character.initials)

\* a character whose name lost a space and changed the case of a letter,
\* replacing one set earlier from the scene
C8_RenamedCharacter ==
    /\ last.op = "setCharacter"
    /\ Character.name # <<>>
    /\ Len(Character.name) < Len(Character.raw_name)
    /\ Character.name[1] # Character.raw_name[1]
    /\ scene # <<>>

(***************************************************************************)
(* C9: whenever initialize() returns normally, the object named by         *)
(* Character.marker_grp carries rigGenName = Character.raw_name,           *)
(* rigGenInitials = Character.initials, and layoutSize.                    *)
(***************************************************************************)
C9_CacheAgreesWithScene ==
    Returned =>
        \E i \in 1..Len(scene) :
            /\ scene[i].name = Character.marker_grp
            /\ {"rigGenName", "rigGenInitials", "layoutSize"} \subseteq DOMAIN scene[i].attrs
            /\ scene[i].attrs.rigGenName = Character.raw_name
            /\ scene[i].attrs.rigGenInitials = Character.initials

(***************************************************************************)
(* C10: every name submit accepts gives a Character.name that is           *)
(* non-empty, starts with a letter and holds only letters and digits.      *)
(***************************************************************************)
C10_AcceptedNameIsUsable ==
    (last.op = "submit" /\ last.dialog = "confirm") =>
        /\ Character.raw_name = last.name
        /\ Character.name # <<>>
        /\ \A k \in 1..Len(Character.name) :
              IF k = 1 THEN IsLetter(Character.name[k]) ELSE IsAlnum(Character.name[k])

=============================================================================
